---- MODULE Spec2Model ----
(***************************************************************************)
(* wxgo access-token Manager: the refresh protocol of                      *)
(* Manager.GetAccessToken (src/code.go) over a Cache, an in-process mutex   *)
(* and an optional Redis-backed distributed lock                           *)
(* (src/internal/token/lock_redis.go).                                     *)
(*                                                                         *)
(* Time is in seconds.  One GetAccessToken call per caller; callers of one *)
(* Manager are goroutines of one process, Managers are processes.          *)
(***************************************************************************)
EXTENDS Integers, FiniteSets, Sequences, TLC

----------------------------------------------------------------------------
(* Bounds of the model *)

\* number of clock advances in one behaviour
MaxTicks == 3
\* number of injected disturbances (backend errors, failed fetches,
\* context cancellations) in one behaviour
MaxFaults == 1
\* seconds by which one clock advance moves the clock
TickStep == 5

----------------------------------------------------------------------------
(* Program constants *)

\* TokenInfo.IsExpired: 5 * time.Minute
RefreshSkew == 5 * 60
\* defaultLockTTL = 15 * time.Second
defaultLockTTL == 15
\* http.Client{Timeout: 10 * time.Second}
httpTimeout == 10
\* redisLockMaxRetry
redisLockMaxRetry == 3
\* redisLockRetryBaseInterval = 250 * time.Millisecond, in milliseconds
redisLockRetryBaseInterval == 250
\* redisLockRetryMaxInterval = 900 * time.Millisecond, in milliseconds
redisLockRetryMaxInterval == 900
\* redisLockJitterPercent = 0.2, in percent
redisLockJitterPercent == 20

CodeOK == "OK"
CodeCacheGet == "E_CACHE_GET"
CodeCacheSet == "E_CACHE_SET"
CodeHTTP == "E_HTTP"
CodeAPIError == "E_WECHAT_API"
CodeInvalidResponse == "E_INVALID_RESPONSE"
CodeLock == "E_LOCK"

DistLockAuto == "auto"
DistLockOn == "on"
DistLockOff == "off"

cacheKindCustom == "custom"
cacheKindRedis == "redis"
cacheKindRC == "redis-cluster"
cacheKindMemory == "memory"

\* error values (the cause an error wraps)
NoErr == "nil"
ErrMissingAppID == "ErrMissingAppID"
ErrMissingAppSecret == "ErrMissingAppSecret"
ErrInvalidResponse == "ErrInvalidResponse"
ErrAPIError == "ErrAPIError"
ErrLockAcquire == "ErrLockAcquire"
ErrLockBackendMissing == "ErrLockBackendMissing"
\* ctx.Err() of a cancelled context
CtxErr == "context canceled"
\* an error reported by the Redis client (network, server)
BackendErr == "redis error"
\* an error of the HTTP exchange with the issuer
TransportErr == "http error"

----------------------------------------------------------------------------
(* The universe *)

Callers == {"c1", "c2", "c3"}
Managers == {"m1", "m2"}

Free == "free"
NoRecord == [AccessToken |-> 0, ExpiresIn |-> 0, ExpiresAt |-> -1]
NoLock == [val |-> "none", exp |-> 0]

\* expires_in values the issuer reports: 4 minutes (inside the skew) and a
\* little over the skew (the record stays usable for one clock advance)
Lifetimes == {240, 305}

\* A *TokenInfo is nil
IsNil(t) == t.AccessToken = 0

----------------------------------------------------------------------------
(* Configuration and backend resolution *)

\* Config.Cache values: none, a custom cache, a custom cache that is also a
\* TokenLocker
NilCache == "nil"
CustomCache == "custom"
CustomLockerCache == "custom+locker"

Config(appID, secret, cacheImpl, redis, cluster, strategy) ==
    [AppID |-> appID, AppSecret |-> secret, Cache |-> cacheImpl,
     RedisClient |-> redis, RedisClusterClient |-> cluster,
     DistLockStrategy |-> strategy]

\* Validate that looks at the secret first
Validate_SecretFirst(c) ==
    IF c.AppSecret = "" THEN ErrMissingAppSecret
    ELSE IF c.AppID = "" THEN ErrMissingAppID
    ELSE NoErr

Validate(c) ==
    IF c.AppID = "" THEN ErrMissingAppID
    ELSE IF c.AppSecret = "" THEN ErrMissingAppSecret
    ELSE NoErr

\* resolveCache in the README's order: the single-node client before the
\* cluster client
resolveCache_RedisFirst(c, m) ==
    IF c.Cache # NilCache THEN [store |-> "custom", kind |-> cacheKindCustom,
                                locker |-> c.Cache = CustomLockerCache]
    ELSE IF c.RedisClient THEN [store |-> "redis", kind |-> cacheKindRedis,
                                locker |-> FALSE]
    ELSE IF c.RedisClusterClient THEN [store |-> "cluster", kind |-> cacheKindRC,
                                       locker |-> FALSE]
    ELSE [store |-> m, kind |-> cacheKindMemory, locker |-> FALSE]

\* the store behind the chosen cache and its kind
resolveCache(c, m) ==
    IF c.Cache # NilCache THEN [store |-> "custom", kind |-> cacheKindCustom,
                                locker |-> c.Cache = CustomLockerCache]
    ELSE IF c.RedisClusterClient THEN [store |-> "cluster", kind |-> cacheKindRC,
                                       locker |-> FALSE]
    ELSE IF c.RedisClient THEN [store |-> "redis", kind |-> cacheKindRedis,
                                locker |-> FALSE]
    ELSE [store |-> m, kind |-> cacheKindMemory, locker |-> FALSE]

lockStrategy(c) ==
    IF c.DistLockStrategy = "" THEN DistLockAuto ELSE c.DistLockStrategy

\* resolveLocker that treats off as auto
resolveLocker_IgnoresOff(c, kind, cacheSel, strategy) ==
    IF cacheSel.locker THEN [locker |-> "custom", err |-> NoErr]
    ELSE IF kind = cacheKindRC /\ c.RedisClusterClient
        THEN [locker |-> "cluster", err |-> NoErr]
    ELSE IF kind = cacheKindRedis /\ c.RedisClient
        THEN [locker |-> "redis", err |-> NoErr]
    ELSE IF strategy = DistLockOn
        THEN [locker |-> "none", err |-> ErrLockBackendMissing]
    ELSE [locker |-> "none", err |-> NoErr]

\* resolveLocker that locks over any Redis client the Config carries,
\* whatever the chosen cache
resolveLocker_AnyRedis(c, kind, cacheSel, strategy) ==
    IF strategy = DistLockOff THEN [locker |-> "none", err |-> NoErr]
    ELSE IF strategy \in {DistLockAuto, DistLockOn} THEN
        IF cacheSel.locker THEN [locker |-> "custom", err |-> NoErr]
        ELSE IF c.RedisClusterClient
            THEN [locker |-> "cluster", err |-> NoErr]
        ELSE IF c.RedisClient
            THEN [locker |-> "redis", err |-> NoErr]
        ELSE IF strategy = DistLockOn
            THEN [locker |-> "none", err |-> ErrLockBackendMissing]
        ELSE [locker |-> "none", err |-> NoErr]
    ELSE [locker |-> "none", err |-> NoErr]

\* the store the locker works on ("none": no locker), or an error
resolveLocker(c, kind, cacheSel, strategy) ==
    IF strategy = DistLockOff THEN [locker |-> "none", err |-> NoErr]
    ELSE IF strategy \in {DistLockAuto, DistLockOn} THEN
        IF cacheSel.locker THEN [locker |-> "custom", err |-> NoErr]
        ELSE IF kind = cacheKindRC /\ c.RedisClusterClient
            THEN [locker |-> "cluster", err |-> NoErr]
        ELSE IF kind = cacheKindRedis /\ c.RedisClient
            THEN [locker |-> "redis", err |-> NoErr]
        ELSE IF strategy = DistLockOn
            THEN [locker |-> "none", err |-> ErrLockBackendMissing]
        ELSE [locker |-> "none", err |-> NoErr]
    ELSE [locker |-> "none", err |-> NoErr]

NewManager(c, m) ==
    LET cacheSel == resolveCache(c, m)
        strategy == lockStrategy(c)
        lk == resolveLocker(c, cacheSel.kind, cacheSel, strategy)
    IN  IF Validate(c) # NoErr THEN [err |-> Validate(c)]
        ELSE IF lk.err # NoErr THEN [err |-> lk.err]
        ELSE [err |-> NoErr, cache |-> cacheSel.store, distLocker |-> lk.locker,
              lockStrategy |-> strategy, lockTTL |-> defaultLockTTL,
              selectedKind |-> cacheSel.kind]

\* stores that are reached over the Redis client (their operations take the
\* caller's context and can fail); a MemoryCache ignores the context and
\* never fails.  A custom Cache is taken to behave as the Redis ones do, and a
\* custom TokenLocker to lock as the RedisLocker does, on a store of its own.
Remote(store) == store \in {"redis", "cluster", "custom"}

Stores == {"redis", "cluster", "custom"} \cup Managers
LockStores == {"redis", "cluster", "custom"}

CfgMemory == Config("wx1", "secret", NilCache, FALSE, FALSE, "")
CfgRedis(strategy) == Config("wx1", "secret", NilCache, TRUE, FALSE, strategy)

\* a caller that makes no call in a deployment has no Manager
Absent == "absent"

\* The deployments explored: one process with an in-memory cache and three
\* goroutines calling; two processes sharing one Redis (cache and lock), one
\* goroutine calling in each, under auto and under on.
Deployments ==
    { [cfg |-> [m \in Managers |-> CfgMemory],
       mgrOf |-> [c \in Callers |-> "m1"]] }
    \cup
    { [cfg |-> [m \in Managers |-> CfgRedis(s)],
       mgrOf |-> [c \in Callers |-> CASE c = "c1" -> "m1"
                                       [] c = "c2" -> Absent
                                       [] c = "c3" -> "m2"]]
      : s \in {"", DistLockOn} }

\* Every Config over the fields NewManager reads: credentials present or
\* empty, each cache source given or not, each strategy, the empty one and
\* one that is none of auto, on, off.
AppIDs == {"", "wx1"}
AppSecrets == {"", "secret"}
Strategies == {"", DistLockAuto, DistLockOn, DistLockOff, "other"}
AllConfigs ==
    { Config(id, sec, ca, r, rc, st) :
        id \in AppIDs, sec \in AppSecrets,
        ca \in {NilCache, CustomCache, CustomLockerCache},
        r \in BOOLEAN, rc \in BOOLEAN, st \in Strategies }

\* Configs of a process started without its credentials
NoCredentials ==
    { Config(id, sec, NilCache, FALSE, FALSE, "") :
        id \in AppIDs, sec \in AppSecrets } \ {CfgMemory}

\* Config.GetCache: the kind of cache it returns
GetCache(c) ==
    IF c.Cache # NilCache THEN cacheKindCustom
    ELSE IF c.RedisClusterClient THEN cacheKindRC
    ELSE IF c.RedisClient THEN cacheKindRedis
    ELSE cacheKindMemory

\* NewClient: the token Config is filled from the client's, field by field;
\* NewManager's error is returned wrapped, its cause kept, and no Client
NewClient(c, m) ==
    LET tokenConfig == Config(c.AppID, c.AppSecret, c.Cache, c.RedisClient,
                              c.RedisClusterClient, c.DistLockStrategy)
        tokenMgr == NewManager(tokenConfig, m)
    IN  IF tokenMgr.err # NoErr THEN [err |-> tokenMgr.err] ELSE tokenMgr

\* the process has not called NewClient yet
NoManager == [err |-> "not constructed"]

----------------------------------------------------------------------------
(* State *)

VARIABLES
    now,        \* the clock, seconds
    ticks,      \* clock advances so far
    faults,     \* disturbances injected so far
    cfg,        \* Config each process builds its Manager from
    mgr,        \* Manager of each process (NewManager's result)
    mgrOf,      \* the Manager each caller calls
    cache,      \* store -> the TokenInfo under the tenant's cache key
    lock,       \* lock store -> the tenant's lock key: value and lease end
    mu,         \* Manager.mu: its holder, or Free
    pc,         \* position of each caller in GetAccessToken
    ctxDone,    \* the caller's context is cancelled
    attempt,    \* loop variable i of RedisLocker.Lock
    wait,       \* the duration Lock is sleeping for, milliseconds (0: none)
    unlock,     \* the caller has a release handle to run on return
    newToken,   \* the record the caller's fetch produced (nil before)
    fetchStart, \* when the caller's HTTP request began
    fetchSeq,   \* tokens the issuer has issued
    ret,        \* the call's result, set by its return statement
    hist,       \* what the call did: fetches, Cache.Set calls, SetNX calls
    apiResp     \* fetchTokenFromWeChat on its own: a response of the issuer
                \* and what the function returns for it

vars == <<now, ticks, faults, cfg, mgr, mgrOf, cache, lock, mu, pc, ctxDone,
          attempt, wait, unlock, newToken, fetchStart, fetchSeq, ret, hist,
          apiResp>>

\* no response under study
NoResp == [r |-> [transport |-> FALSE, status |-> -1, parse |-> FALSE,
                  errcode |-> 0, access_token |-> 0, expires_in |-> 0],
           out |-> [rec |-> NoRecord, code |-> "none", err |-> NoErr]]

NoRet == [token |-> 0, code |-> "none", err |-> NoErr, path |-> "none",
          fresh |-> FALSE]
NoHist == [fetches |-> 0, sets |-> 0, setnx |-> 0, held |-> 0, ttl |-> 0,
           mutex |-> FALSE, dist |-> FALSE]

\* a record left in Redis by an earlier run, past its refresh time
StaleRecord == [AccessToken |-> 9, ExpiresIn |-> 240, ExpiresAt |-> 200]

Init ==
    /\ now = 0
    /\ ticks = 0
    /\ faults = 0
    /\ \E d \in Deployments :
        /\ cfg = d.cfg
        /\ mgr = [m \in Managers |-> NewManager(d.cfg[m], m)]
        /\ mgrOf = d.mgrOf
    /\ \E r \in {NoRecord, StaleRecord} :
        cache = [s \in Stores |-> IF s = "redis" THEN r ELSE NoRecord]
    /\ lock = [s \in LockStores |-> NoLock]
    /\ mu = [m \in Managers |-> Free]
    /\ pc = [c \in Callers |-> "get1"]
    /\ ctxDone = [c \in Callers |-> FALSE]
    /\ attempt = [c \in Callers |-> 0]
    /\ wait = [c \in Callers |-> 0]
    /\ unlock = [c \in Callers |-> FALSE]
    /\ newToken = [c \in Callers |-> NoRecord]
    /\ fetchStart = [c \in Callers |-> 0]
    /\ fetchSeq = 0
    /\ ret = [c \in Callers |-> NoRet]
    /\ hist = [c \in Callers |-> NoHist]
    /\ apiResp = NoResp

----------------------------------------------------------------------------
(* Pure functions *)

\* IsExpired without the five minutes
IsExpired_NoSkew(t, t0) == t0 > t.ExpiresAt

\* IsExpired that counts the instant five minutes before the expiry as
\* expired
IsExpired_AtBoundary(t, t0) == t0 + RefreshSkew >= t.ExpiresAt

\* time.Now().Add(5 * time.Minute).After(t.ExpiresAt), with time.Now() = t0
IsExpired(t, t0) == t0 + RefreshSkew > t.ExpiresAt

\* the lock key is present in Redis at time t0 (its lease has not run out)
KeyPresent(l, t0) == l # NoLock /\ t0 < l.exp

\* a release that deletes the key whatever it holds
unlockScript_Unconditional(l, val, t0) == NoLock

\* the unlock script: delete the key only if it holds ARGV[1]
unlockScript(l, val, t0) ==
    IF KeyPresent(l, t0) /\ l.val = val THEN NoLock ELSE l

\* fetchTokenFromWeChat that looks for the token before the errcode
fetchTokenFromWeChat_TokenFirst(r, t0) ==
    IF ~r.transport \/ r.status < 200 \/ r.status >= 300
        THEN [rec |-> NoRecord, code |-> CodeHTTP, err |-> TransportErr]
    ELSE IF ~r.parse \/ r.access_token = 0
        THEN [rec |-> NoRecord, code |-> CodeInvalidResponse,
              err |-> ErrInvalidResponse]
    ELSE IF r.errcode # 0
        THEN [rec |-> NoRecord, code |-> CodeAPIError, err |-> ErrAPIError]
    ELSE [rec |-> [AccessToken |-> r.access_token, ExpiresIn |-> r.expires_in,
                   ExpiresAt |-> t0 + r.expires_in],
          code |-> CodeOK, err |-> NoErr]

\* fetchTokenFromWeChat on the issuer's response r, received at t0
fetchTokenFromWeChat(r, t0) ==
    IF ~r.transport
        THEN [rec |-> NoRecord, code |-> CodeHTTP, err |-> TransportErr]
    ELSE IF r.status < 200 \/ r.status >= 300
        THEN [rec |-> NoRecord, code |-> CodeHTTP, err |-> TransportErr]
    ELSE IF ~r.parse
        THEN [rec |-> NoRecord, code |-> CodeInvalidResponse,
              err |-> ErrInvalidResponse]
    ELSE IF r.errcode # 0
        THEN [rec |-> NoRecord, code |-> CodeAPIError, err |-> ErrAPIError]
    ELSE IF r.access_token = 0
        THEN [rec |-> NoRecord, code |-> CodeInvalidResponse,
              err |-> ErrInvalidResponse]
    ELSE [rec |-> [AccessToken |-> r.access_token, ExpiresIn |-> r.expires_in,
                   ExpiresAt |-> t0 + r.expires_in],
          code |-> CodeOK, err |-> NoErr]

Response(transport, status, parse, errcode, tok, life) ==
    [transport |-> transport, status |-> status, parse |-> parse,
     errcode |-> errcode, access_token |-> tok, expires_in |-> life]

\* responses that carry a token: the issuer issues token number id
GoodResponses(id) == { Response(TRUE, 200, TRUE, 0, id, l) : l \in Lifetimes }

\* responses that carry none: no connection, a 5xx, a body that is no JSON,
\* an errcode, an errcode next to a token, a 200 with an empty token
BadResponses(id) ==
    { Response(FALSE, 0, FALSE, 0, 0, 0),
      Response(TRUE, 500, TRUE, 0, 0, 0),
      Response(TRUE, 200, FALSE, 0, 0, 0),
      Response(TRUE, 200, TRUE, 40013, 0, 0),
      Response(TRUE, 200, TRUE, 40013, id, 7200),
      Response(TRUE, 200, TRUE, 0, 0, 7200) }

----------------------------------------------------------------------------
(* Steps of Manager.GetAccessToken, one per blocking operation *)

M(c) == mgr[mgrOf[c]]

\* the value of a return statement: token, code, error, the branch that
\* returned, and whether the returned record (exp is its ExpiresAt) has at
\* least the refresh skew left to live at that moment
Result(token, code, err, path, exp) ==
    [token |-> token, code |-> code, err |-> err, path |-> path,
     fresh |-> token # 0 /\ exp - now >= RefreshSkew]

\* where a returning call goes next: its deferred calls run in reverse order
\* of registration, unlock() before m.mu.Unlock()
Deferred(c) ==
    IF unlock[c] THEN "unlockDist"
    ELSE IF mu[mgrOf[c]] = c THEN "unlockMu"
    ELSE "done"

\* outcomes of Cache.Get for caller c: a Redis read fails when the context
\* is cancelled and may fail on its own; a MemoryCache read never fails
GetOutcomes(c) ==
    LET s == M(c).cache IN
    IF Remote(s) /\ ctxDone[c]
        THEN { [err |-> CtxErr, rec |-> NoRecord, fault |-> 0] }
    ELSE { [err |-> NoErr, rec |-> cache[s], fault |-> 0] }
         \cup IF Remote(s) /\ faults < MaxFaults
                 THEN { [err |-> BackendErr, rec |-> NoRecord, fault |-> 1] }
                 ELSE {}

\* the validity check turned round
Usable_Inverted(t) == ~IsNil(t) /\ IsExpired(t, now)

\* "token != nil && !token.IsExpired()"
Usable(t) == ~IsNil(t) /\ ~IsExpired(t, now)

\* a call that takes a failed read for a miss and goes on
GetFailed_Masked(c, err, path) ==
    /\ ret' = ret
    /\ pc' = [pc EXCEPT ![c] =
                 IF path = "get1" THEN "lockMu"
                 ELSE IF path = "get3" THEN "fetching"
                 ELSE IF M(c).distLocker = "none" THEN "get3" ELSE "setnx"]

\* "token, err := m.cache.Get(ctx, cacheKey); if err != nil": the call
\* returns "", CodeCacheGet and the error; its deferred calls run
GetFailed(c, err, path) ==
    /\ ret' = [ret EXCEPT ![c] = Result(0, CodeCacheGet, err, path, 0)]
    /\ pc' = [pc EXCEPT ![c] = Deferred(c)]

\* the call begins: cacheKey := m.getCacheKey(), and the first read, before
\* any lock
Get1(c) ==
    /\ pc[c] = "get1"
    /\ mgrOf[c] # Absent
    /\ M(c).err = NoErr
    /\ \E o \in GetOutcomes(c) :
        /\ faults' = faults + o.fault
        /\ IF o.err # NoErr
             THEN /\ GetFailed(c, o.err, "get1")
           ELSE IF Usable(o.rec)
             THEN /\ ret' = [ret EXCEPT ![c] =
                        Result(o.rec.AccessToken, CodeOK, NoErr, "hit1",
                               o.rec.ExpiresAt)]
                  /\ pc' = [pc EXCEPT ![c] = "done"]
           ELSE /\ pc' = [pc EXCEPT ![c] = "lockMu"]
                /\ ret' = ret
    /\ UNCHANGED <<apiResp, now, ticks, cfg, mgr, mgrOf, cache, lock, mu, ctxDone, attempt, wait,
                   unlock, newToken, fetchStart, fetchSeq, hist>>

\* a mutex that does not exclude
MuLock_NoWait(c) ==
    /\ pc[c] = "lockMu"
    /\ mu' = [mu EXCEPT ![mgrOf[c]] = c]
    /\ pc' = [pc EXCEPT ![c] = "get2"]
    /\ hist' = [hist EXCEPT ![c].mutex = TRUE]
    /\ UNCHANGED <<apiResp, now, ticks, faults, cfg, mgr, mgrOf, cache, lock, ctxDone,
                   attempt, wait, unlock, newToken, fetchStart, fetchSeq, ret>>

\* m.mu.Lock(): blocks until the mutex is free, whatever the context
MuLock(c) ==
    /\ pc[c] = "lockMu"
    /\ mu[mgrOf[c]] = Free
    /\ mu' = [mu EXCEPT ![mgrOf[c]] = c]
    /\ pc' = [pc EXCEPT ![c] = "get2"]
    /\ hist' = [hist EXCEPT ![c].mutex = TRUE]
    /\ UNCHANGED <<apiResp, now, ticks, faults, cfg, mgr, mgrOf, cache, lock, ctxDone,
                   attempt, wait, unlock, newToken, fetchStart, fetchSeq, ret>>

\* second read, under the mutex; on a miss acquireDistLock is entered (it
\* returns nil, nil at once when no locker is configured)
Get2(c) ==
    /\ pc[c] = "get2"
    /\ \E o \in GetOutcomes(c) :
        /\ faults' = faults + o.fault
        /\ IF o.err # NoErr
             THEN /\ GetFailed(c, o.err, "get2")
           ELSE IF Usable(o.rec)
             THEN /\ ret' = [ret EXCEPT ![c] =
                        Result(o.rec.AccessToken, CodeOK, NoErr, "hit2",
                               o.rec.ExpiresAt)]
                  /\ pc' = [pc EXCEPT ![c] = Deferred(c)]
           ELSE /\ pc' = [pc EXCEPT ![c] =
                        IF M(c).distLocker = "none" THEN "get3" ELSE "setnx"]
                /\ ret' = ret
    /\ attempt' = [attempt EXCEPT ![c] = 0]
    /\ UNCHANGED <<apiResp, now, ticks, cfg, mgr, mgrOf, cache, lock, mu, ctxDone, wait,
                   unlock, newToken, fetchStart, fetchSeq, hist>>

\* outcomes of a Redis command other than a read, for caller c
CmdOutcomes(c) ==
    IF ctxDone[c] THEN { [err |-> CtxErr, fault |-> 0] }
    ELSE { [err |-> NoErr, fault |-> 0] }
         \cup IF faults < MaxFaults
                 THEN { [err |-> BackendErr, fault |-> 1] } ELSE {}

\* a Manager that goes on without the lock when Lock fails
LockFailed_Fallback(c, err, path) ==
    /\ ret' = ret
    /\ pc' = [pc EXCEPT ![c] = "get3"]

\* "unlock, err := m.acquireDistLock(ctx); if err != nil": the call returns
\* CodeLock with Lock's error
LockFailed(c, err, path) ==
    /\ ret' = [ret EXCEPT ![c] = Result(0, CodeLock, err, path, 0)]
    /\ pc' = [pc EXCEPT ![c] = Deferred(c)]

\* 1 << n
RECURSIVE Shl1(_)
Shl1(n) == IF n <= 0 THEN 1 ELSE 2 * Shl1(n - 1)

\* randv2.Float64(), a number in [0, 1), in hundredths: the least value, the
\* middle and the greatest
RandScale == 100
RandDraws == {0, 50, 99}

\* jitterInterval: the durations it can return for base, milliseconds
jitterInterval(base) ==
    IF base <= 0 \/ redisLockJitterPercent <= 0 THEN {base}
    ELSE LET min == (base * (100 - redisLockJitterPercent)) \div 100
             max == (base * (100 + redisLockJitterPercent)) \div 100
         IN  { min + (r * (max - min)) \div RandScale : r \in RandDraws }

\* backoffInterval without the doubling
backoffInterval_NoDoubling(n) ==
    jitterInterval(redisLockRetryBaseInterval)

\* backoffInterval: the durations it can return for attempt n
backoffInterval(n) ==
    LET a == IF n < 0 THEN 0 ELSE n
        interval == redisLockRetryBaseInterval * Shl1(a)
    IN  jitterInterval(IF interval > redisLockRetryMaxInterval
                          THEN redisLockRetryMaxInterval ELSE interval)

\* RedisLocker.Lock, one iteration: SetNX(ctx, key, lockVal, ttl).  The lock
\* value is random per Lock call; the caller's name stands for it.
SetNX(c) ==
    LET ls == M(c).distLocker IN
    /\ pc[c] = "setnx"
    /\ \E o \in CmdOutcomes(c) :
        /\ faults' = faults + o.fault
        /\ IF o.err # NoErr
             THEN \* Lock returns nil, err
                  /\ LockFailed(c, o.err, "lock")
                  /\ hist' = [hist EXCEPT ![c].setnx = @ + 1]
                  /\ UNCHANGED <<lock, unlock, wait>>
           ELSE IF ~KeyPresent(lock[ls], now)
             THEN \* ok: the key is written with the lease; Lock returns the
                  \* release handle
                  /\ lock' = [lock EXCEPT ![ls] =
                        [val |-> c, exp |-> now + M(c).lockTTL]]
                  /\ unlock' = [unlock EXCEPT ![c] = TRUE]
                  /\ pc' = [pc EXCEPT ![c] = "get3"]
                  /\ hist' = [hist EXCEPT ![c].setnx = @ + 1,
                                          ![c].dist = TRUE]
                  /\ UNCHANGED <<ret, wait>>
           ELSE IF attempt[c] = redisLockMaxRetry - 1
             THEN \* the key is held and this was the last attempt: Lock
                  \* returns nil, ErrLockAcquire
                  /\ LockFailed(c, ErrLockAcquire, "lock")
                  /\ hist' = [hist EXCEPT ![c].setnx = @ + 1,
                                          ![c].held = @ + 1]
                  /\ UNCHANGED <<lock, unlock, wait>>
           ELSE \* the key is held: wait := backoffInterval(i)
                  /\ \E w \in backoffInterval(attempt[c]) :
                        wait' = [wait EXCEPT ![c] = w]
                  /\ pc' = [pc EXCEPT ![c] = "wait"]
                  /\ hist' = [hist EXCEPT ![c].setnx = @ + 1,
                                          ![c].held = @ + 1]
                  /\ UNCHANGED <<lock, unlock, ret>>
    /\ UNCHANGED <<apiResp, now, ticks, cfg, mgr, mgrOf, cache, mu, ctxDone, attempt,
                   newToken, fetchStart, fetchSeq>>

\* select: <-time.After(wait) comes first; the loop goes on with i++
TimerFires(c) ==
    /\ pc[c] = "wait"
    /\ ~ctxDone[c]
    /\ attempt' = [attempt EXCEPT ![c] = @ + 1]
    /\ wait' = [wait EXCEPT ![c] = 0]
    /\ pc' = [pc EXCEPT ![c] = "setnx"]
    /\ UNCHANGED <<apiResp, now, ticks, faults, cfg, mgr, mgrOf, cache, lock, mu, ctxDone,
                   unlock, newToken, fetchStart, fetchSeq, ret, hist>>

\* a cancelled wait that leaves the loop as if the attempts were used up
WaitCancelled_AsExhausted(c) ==
    /\ pc[c] = "wait"
    /\ ctxDone[c]
    /\ LockFailed(c, ErrLockAcquire, "wait")
    /\ wait' = [wait EXCEPT ![c] = 0]
    /\ UNCHANGED <<apiResp, now, ticks, faults, cfg, mgr, mgrOf, cache, lock, mu, ctxDone,
                   attempt, unlock, newToken, fetchStart, fetchSeq, hist>>

\* select: <-ctx.Done() comes first; Lock returns nil, ctx.Err()
WaitCancelled(c) ==
    /\ pc[c] = "wait"
    /\ ctxDone[c]
    /\ LockFailed(c, CtxErr, "wait")
    /\ wait' = [wait EXCEPT ![c] = 0]
    /\ UNCHANGED <<apiResp, now, ticks, faults, cfg, mgr, mgrOf, cache, lock, mu, ctxDone,
                   attempt, unlock, newToken, fetchStart, fetchSeq, hist>>

\* third read, under the distributed lock if any; on a miss the HTTP request
\* to the issuer is sent
Get3(c) ==
    /\ pc[c] = "get3"
    /\ \E o \in GetOutcomes(c) :
        /\ faults' = faults + o.fault
        /\ IF o.err # NoErr
             THEN /\ GetFailed(c, o.err, "get3")
                  /\ UNCHANGED <<fetchStart, hist>>
           ELSE IF Usable(o.rec)
             THEN /\ ret' = [ret EXCEPT ![c] =
                        Result(o.rec.AccessToken, CodeOK, NoErr, "hit3",
                               o.rec.ExpiresAt)]
                  /\ pc' = [pc EXCEPT ![c] = Deferred(c)]
                  /\ UNCHANGED <<fetchStart, hist>>
           ELSE /\ pc' = [pc EXCEPT ![c] = "fetching"]
                /\ fetchStart' = [fetchStart EXCEPT ![c] = now]
                /\ hist' = [hist EXCEPT ![c].fetches = @ + 1]
                /\ ret' = ret
    /\ UNCHANGED <<apiResp, now, ticks, cfg, mgr, mgrOf, cache, lock, mu, ctxDone, attempt, wait,
                   unlock, newToken, fetchSeq>>

\* the responses the caller's request can end with: none but a transport
\* error once its context is cancelled
Responses(c) ==
    IF ctxDone[c] THEN { [r |-> Response(FALSE, 0, FALSE, 0, 0, 0), fault |-> 0] }
    ELSE { [r |-> x, fault |-> 0] : x \in GoodResponses(fetchSeq + 1) }
         \cup IF faults < MaxFaults
                 THEN { [r |-> x, fault |-> 1] : x \in BadResponses(fetchSeq + 1) }
                 ELSE {}

\* a call that sends the request again when it fails
FetchReturn_Retries(c) ==
    /\ pc[c] = "fetching"
    /\ \E o \in Responses(c) :
        LET res == fetchTokenFromWeChat(o.r, now) IN
        /\ faults' = faults + o.fault
        /\ fetchSeq' = IF o.r.access_token # 0 THEN fetchSeq + 1 ELSE fetchSeq
        /\ IF res.err # NoErr
             THEN /\ hist' = [hist EXCEPT ![c].fetches = @ + 1]
                  /\ fetchStart' = [fetchStart EXCEPT ![c] = now]
                  /\ UNCHANGED <<newToken, pc, ret>>
           ELSE /\ newToken' = [newToken EXCEPT ![c] = res.rec]
                /\ pc' = [pc EXCEPT ![c] = "set"]
                /\ fetchStart' = [fetchStart EXCEPT ![c] = 0]
                /\ UNCHANGED <<ret, hist>>
    /\ UNCHANGED <<apiResp, now, ticks, cfg, mgr, mgrOf, cache, lock, mu, ctxDone,
                   attempt, wait, unlock>>

\* fetchTokenFromWeChat returns
FetchReturn(c) ==
    /\ pc[c] = "fetching"
    /\ \E o \in Responses(c) :
        LET res == fetchTokenFromWeChat(o.r, now) IN
        /\ faults' = faults + o.fault
        /\ fetchSeq' = IF o.r.access_token # 0 THEN fetchSeq + 1 ELSE fetchSeq
        /\ IF res.err # NoErr
             THEN /\ ret' = [ret EXCEPT ![c] =
                        Result(0, res.code, res.err, "fetch", 0)]
                  /\ pc' = [pc EXCEPT ![c] = Deferred(c)]
                  /\ UNCHANGED newToken
           ELSE /\ newToken' = [newToken EXCEPT ![c] = res.rec]
                /\ pc' = [pc EXCEPT ![c] = "set"]
                /\ ret' = ret
    /\ fetchStart' = [fetchStart EXCEPT ![c] = 0]
    /\ UNCHANGED <<apiResp, now, ticks, cfg, mgr, mgrOf, cache, lock, mu, ctxDone, attempt, wait,
                   unlock, hist>>

\* outcomes of Cache.Set: as a Redis command, or the MemoryCache's nil
SetOutcomes(c) ==
    IF Remote(M(c).cache) THEN CmdOutcomes(c)
    ELSE { [err |-> NoErr, fault |-> 0] }

\* a failed cache write that returns the token and the code without the error
SetFailed_Silent(t, err) ==
    Result(t.AccessToken, CodeCacheSet, NoErr, "set", t.ExpiresAt)

\* a failed cache write that loses the token
SetFailed_DropsToken(t, err) == Result(0, CodeCacheSet, err, "set", 0)

\* "if err := m.cache.Set(...); err != nil": the fetched token is returned
\* with CodeCacheSet
SetFailed(t, err) == Result(t.AccessToken, CodeCacheSet, err, "set", t.ExpiresAt)

\* a ttl shortened by the refresh skew
cacheTTL_LessSkew(t) == t.ExpiresIn - RefreshSkew

\* "ttl := time.Duration(newToken.ExpiresIn) * time.Second", in seconds
cacheTTL(t) == t.ExpiresIn

\* m.cache.Set(ctx, cacheKey, newToken, ttl) and the return that follows
CacheSet(c) ==
    LET s == M(c).cache
        t == newToken[c]
        ttl == cacheTTL(t)
    IN
    /\ pc[c] = "set"
    /\ hist' = [hist EXCEPT ![c].sets = @ + 1, ![c].ttl = ttl]
    /\ \E o \in SetOutcomes(c) :
        /\ faults' = faults + o.fault
        /\ IF o.err # NoErr
             THEN /\ ret' = [ret EXCEPT ![c] = SetFailed(t, o.err)]
                  /\ cache' = cache
           ELSE /\ ret' = [ret EXCEPT ![c] =
                        Result(t.AccessToken, CodeOK, NoErr, "fresh",
                               t.ExpiresAt)]
                /\ cache' = [cache EXCEPT ![s] = t]
    /\ pc' = [pc EXCEPT ![c] = Deferred(c)]
    /\ UNCHANGED <<apiResp, now, ticks, cfg, mgr, mgrOf, lock, mu, ctxDone, attempt, wait, unlock,
                   newToken, fetchStart, fetchSeq>>

\* deferred unlock(): unlockScript.Run(ctx, ...) with the caller's context;
\* it fails without reaching Redis when the context is cancelled, and its
\* error is dropped
UnlockDist(c) ==
    LET ls == M(c).distLocker IN
    /\ pc[c] = "unlockDist"
    /\ lock' = IF ctxDone[c] THEN lock
               ELSE [lock EXCEPT ![ls] = unlockScript(lock[ls], c, now)]
    /\ unlock' = [unlock EXCEPT ![c] = FALSE]
    /\ pc' = [pc EXCEPT ![c] = "unlockMu"]
    /\ UNCHANGED <<apiResp, now, ticks, faults, cfg, mgr, mgrOf, cache, mu, ctxDone, attempt, wait,
                   newToken, fetchStart, fetchSeq, ret, hist>>

\* a return that leaves the mutex locked
MuUnlock_KeepsMutex(c) ==
    /\ pc[c] = "unlockMu"
    /\ pc' = [pc EXCEPT ![c] = "done"]
    /\ UNCHANGED <<apiResp, now, ticks, faults, cfg, mgr, mgrOf, cache, lock, mu,
                   ctxDone, attempt, wait, unlock, newToken, fetchStart,
                   fetchSeq, ret, hist>>

\* deferred m.mu.Unlock(); the call has returned
MuUnlock(c) ==
    /\ pc[c] = "unlockMu"
    /\ mu' = [mu EXCEPT ![mgrOf[c]] = Free]
    /\ pc' = [pc EXCEPT ![c] = "done"]
    /\ UNCHANGED <<apiResp, now, ticks, faults, cfg, mgr, mgrOf, cache, lock, ctxDone,
                   attempt, wait, unlock, newToken, fetchStart, fetchSeq, ret, hist>>

----------------------------------------------------------------------------
(* The environment *)

\* the caller's context is cancelled, before its call or while it runs
Cancel(c) ==
    /\ pc[c] # "done"
    /\ mgrOf[c] # Absent
    /\ ~ctxDone[c]
    /\ faults < MaxFaults
    /\ faults' = faults + 1
    /\ ctxDone' = [ctxDone EXCEPT ![c] = TRUE]
    /\ UNCHANGED <<apiResp, now, ticks, cfg, mgr, mgrOf, cache, lock, mu, pc, attempt, wait, unlock,
                   newToken, fetchStart, fetchSeq, ret, hist>>

\* the clock is read only through a lock lease and through IsExpired: time
\* that passes while no lock key is present and no record is usable changes
\* nothing a call can observe
TimeMatters ==
    \/ \E s \in LockStores : KeyPresent(lock[s], now)
    \/ \E s \in Stores : Usable(cache[s])
    \/ \E c \in Callers : pc[c] = "set" /\ Usable(newToken[c])

\* time passes; an HTTP request does not outlive the client's Timeout, and
\* Redis drops a lock key whose lease has run out
Tick ==
    /\ ticks < MaxTicks
    /\ TimeMatters
    /\ \A c \in Callers :
        pc[c] = "fetching" => now + TickStep <= fetchStart[c] + httpTimeout
    /\ now' = now + TickStep
    /\ ticks' = ticks + 1
    /\ lock' = [s \in LockStores |->
                    IF KeyPresent(lock[s], now + TickStep) THEN lock[s] ELSE NoLock]
    /\ UNCHANGED <<apiResp, faults, cfg, mgr, mgrOf, cache, mu, pc, ctxDone, attempt, wait, unlock,
                   newToken, fetchStart, fetchSeq, ret, hist>>

Next ==
    \/ \E c \in Callers :
        \/ Get1(c) \/ MuLock(c) \/ Get2(c)
        \/ SetNX(c) \/ TimerFires(c) \/ WaitCancelled(c)
        \/ Get3(c) \/ FetchReturn(c) \/ CacheSet(c)
        \/ UnlockDist(c) \/ MuUnlock(c)
        \/ Cancel(c)
    \/ Tick

Spec == Init /\ [][Next]_vars

----------------------------------------------------------------------------
(* Construction under every configuration: a process builds its client     *)
(* from any Config and one goroutine makes one call, over empty stores and  *)
(* with no clock advance; a second process starts without its credentials.  *)

InitCfg ==
    /\ now = 0
    /\ ticks = 0
    /\ faults = 0
    /\ \E a \in AllConfigs, b \in NoCredentials :
        cfg = [m \in Managers |-> IF m = "m1" THEN a ELSE b]
    /\ mgr = [m \in Managers |-> NoManager]
    /\ mgrOf = [c \in Callers |-> CASE c = "c1" -> "m1"
                                    [] c = "c2" -> Absent
                                    [] c = "c3" -> "m2"]
    /\ cache = [s \in Stores |-> NoRecord]
    /\ lock = [s \in LockStores |-> NoLock]
    /\ mu = [m \in Managers |-> Free]
    /\ pc = [c \in Callers |-> "get1"]
    /\ ctxDone = [c \in Callers |-> FALSE]
    /\ attempt = [c \in Callers |-> 0]
    /\ wait = [c \in Callers |-> 0]
    /\ unlock = [c \in Callers |-> FALSE]
    /\ newToken = [c \in Callers |-> NoRecord]
    /\ fetchStart = [c \in Callers |-> 0]
    /\ fetchSeq = 0
    /\ ret = [c \in Callers |-> NoRet]
    /\ hist = [c \in Callers |-> NoHist]
    /\ apiResp = NoResp

\* the process calls NewClient with its Config
Construct(m) ==
    /\ mgr[m] = NoManager
    /\ mgr' = [mgr EXCEPT ![m] = NewClient(cfg[m], m)]
    /\ UNCHANGED <<apiResp, now, ticks, faults, cfg, mgrOf, cache, lock, mu, pc, ctxDone,
                   attempt, wait, unlock, newToken, fetchStart, fetchSeq, ret, hist>>

NextCfg ==
    \/ \E m \in Managers : Construct(m)
    \/ \E c \in Callers :
        \/ Get1(c) \/ MuLock(c) \/ Get2(c)
        \/ SetNX(c)
        \/ Get3(c) \/ FetchReturn(c) \/ CacheSet(c)
        \/ UnlockDist(c) \/ MuUnlock(c)

SpecCfg == InitCfg /\ [][NextCfg]_vars

----------------------------------------------------------------------------
(* Calls whose operations all return *)

\* a step of caller c's call other than the wait for the mutex: an
\* operation on the cache, the locker or the issuer returns, the retry timer
\* or the cancellation ends a wait, a deferred release runs
CallStep(c) ==
    \/ Get1(c) \/ Get2(c)
    \/ SetNX(c) \/ TimerFires(c) \/ WaitCancelled(c)
    \/ Get3(c) \/ FetchReturn(c) \/ CacheSet(c)
    \/ UnlockDist(c) \/ MuUnlock(c)

\* The calls and the cancellations, with the clock standing still: no lease
\* runs out, which is the worst case for a call that waits for the lock key.
NextLive ==
    \E c \in Callers :
        \/ Get1(c) \/ MuLock(c) \/ Get2(c)
        \/ SetNX(c) \/ TimerFires(c) \/ WaitCancelled(c)
        \/ Get3(c) \/ FetchReturn(c) \/ CacheSet(c)
        \/ UnlockDist(c) \/ MuUnlock(c)
        \/ Cancel(c)

\* Every operation a call has started returns: Redis commands and the HTTP
\* request carry timeouts, time.After fires, the goroutine is scheduled.  The
\* mutex is fair: sync.Mutex hands over to a waiter that has waited long
\* (starvation mode), so a caller that finds it free again and again gets it.
\* Nothing obliges a context to be cancelled.
Fairness ==
    \A c \in Callers : WF_vars(CallStep(c)) /\ SF_vars(MuLock(c))

SpecLive == Init /\ [][NextLive]_vars /\ Fairness

----------------------------------------------------------------------------
(* fetchTokenFromWeChat over the responses the issuer can send *)

\* status codes around the 2xx range, and a 5xx
Statuses == {199, 200, 299, 300, 500}

\* errcode: absent or 0, an issuer error, the issuer's "system busy"
ErrCodes == {0, 40013, -1}

\* every response: the request or the reading of the body fails or not, a
\* status, a body that is JSON or not, and the fields of apiResp
AllResponses ==
    { Response(tr, st, pa, ec, tok, life) :
        tr \in BOOLEAN, st \in Statuses, pa \in BOOLEAN, ec \in ErrCodes,
        tok \in {0, 1}, life \in Lifetimes \cup {0, 7200} }

\* time.Now() when the function builds the record
ReceiveTimes == {0, 7}

\* a Manager is built; a request of one of its calls has ended with some
\* response at some time
InitFetch ==
    /\ now \in ReceiveTimes
    /\ ticks = 0
    /\ faults = 0
    /\ \E d \in Deployments :
        /\ cfg = d.cfg
        /\ mgr = [m \in Managers |-> NewManager(d.cfg[m], m)]
        /\ mgrOf = d.mgrOf
    /\ cache = [s \in Stores |-> NoRecord]
    /\ lock = [s \in LockStores |-> NoLock]
    /\ mu = [m \in Managers |-> Free]
    /\ pc = [c \in Callers |-> "get1"]
    /\ ctxDone = [c \in Callers |-> FALSE]
    /\ attempt = [c \in Callers |-> 0]
    /\ wait = [c \in Callers |-> 0]
    /\ unlock = [c \in Callers |-> FALSE]
    /\ newToken = [c \in Callers |-> NoRecord]
    /\ fetchStart = [c \in Callers |-> 0]
    /\ fetchSeq = 0
    /\ ret = [c \in Callers |-> NoRet]
    /\ hist = [c \in Callers |-> NoHist]
    /\ \E x \in AllResponses : apiResp = [r |-> x, out |-> NoResp.out]

\* fetchTokenFromWeChat runs from the response to its return
Classify ==
    /\ apiResp.r.status >= 0
    /\ apiResp.out.code = "none"
    /\ apiResp' = [apiResp EXCEPT !.out = fetchTokenFromWeChat(apiResp.r, now)]
    /\ UNCHANGED <<now, ticks, faults, cfg, mgr, mgrOf, cache, lock, mu, pc,
                   ctxDone, attempt, wait, unlock, newToken, fetchStart,
                   fetchSeq, ret, hist>>

NextFetch == Classify

SpecFetch == InitFetch /\ [][NextFetch]_vars

----------------------------------------------------------------------------
(* Vocabulary of the properties *)

\* the callers that make a call
Act == { c \in Callers : mgrOf[c] # Absent }

CallersOf(m) == { c \in Callers : mgrOf[c] = m }

Fetching == { c \in Act : pc[c] = "fetching" }

Hits == {"hit1", "hit2", "hit3"}

TotalFetches == hist["c1"].fetches + hist["c2"].fetches + hist["c3"].fetches

\* every call has returned CodeOK
AllOK == \A c \in Act : pc[c] = "done" /\ ret[c].code = CodeOK

\* a record that is present and has at least the refresh skew left to live
StillValid(t) == t.AccessToken # 0 /\ now + RefreshSkew <= t.ExpiresAt

\* every record a call fetched is still valid now
FetchedStillUsable ==
    \A c \in Act : newToken[c].AccessToken # 0 => StillValid(newToken[c])

\* all calls returned one token, and a call fetched it
SameFetchedToken ==
    \E d \in Act : /\ ret[d].path = "fresh"
                   /\ \A c \in Act : ret[c].token = ret[d].token

\* one process: every caller calls the same Manager
OneManager == \A c \in Callers : mgrOf[c] = "m1"

\* a fleet: the Managers share the Redis cache and lock over it, under one
\* strategy, auto or on
Fleet ==
    /\ \A m \in Managers : /\ mgr[m].err = NoErr
                           /\ mgr[m].cache = "redis"
                           /\ mgr[m].distLocker = "redis"
                           /\ mgr[m].lockStrategy \in {DistLockAuto, DistLockOn}
    /\ \A m1, m2 \in Managers : mgr[m1].lockStrategy = mgr[m2].lockStrategy
    /\ \E c1, c2 \in Act : mgrOf[c1] # mgrOf[c2]

\* caller c's lock value is in the lock key
HoldsKey(c) ==
    /\ M(c).distLocker # "none"
    /\ KeyPresent(lock[M(c).distLocker], now)
    /\ lock[M(c).distLocker].val = c

----------------------------------------------------------------------------
(* C1: freshness *)

\* C1 as claimed: every token GetAccessToken returns has, at the return, at
\* least the refresh skew left to live.
C1_EveryReturnFresh ==
    \A c \in Act : ret[c].token # 0 => ret[c].fresh

\* C1 amended: every token returned from one of the three cache reads has at
\* least the refresh skew left when the read's validity check returns it.
C1_CacheHitFresh ==
    \A c \in Act : ret[c].path \in Hits =>
        ret[c].token # 0 /\ ret[c].code = CodeOK /\ ret[c].fresh

\* a refresh by one call, then time passes, then a cache hit by another call
\* on the record the first one fetched
C1_Witness ==
    \E c, d \in Act :
        /\ ret[d].path = "fresh"
        /\ ret[c].path = "hit1"
        /\ ret[c].token = ret[d].token
        /\ now > 0

----------------------------------------------------------------------------
(* C2: one fetch in flight per Manager *)

\* C2: among the callers of one Manager at most one is inside
\* fetchTokenFromWeChat.
C2_OneFetchInFlightPerManager ==
    \A m \in Managers : Cardinality(Fetching \cap CallersOf(m)) <= 1

\* one goroutine is fetching while the two others of its Manager wait for
\* the mutex
C2_Witness ==
    \E c \in Act :
        /\ pc[c] = "fetching"
        /\ \A d \in Act \ {c} : mgrOf[d] = mgrOf[c] /\ pc[d] = "lockMu"
        /\ Cardinality(Act) = 3

----------------------------------------------------------------------------
(* C3: N concurrent calls on one Manager *)

----------------------------------------------------------------------------
(* C4: one fetch in flight fleet-wide *)

\* C4: in a fleet at most one caller is inside fetchTokenFromWeChat.
C4_OneFetchInFlightFleetWide ==
    Fleet => Cardinality(Fetching) <= 1

----------------------------------------------------------------------------
(* C5: M Managers, one fetch *)

\* C5: in a fleet, when every call returned CodeOK and every fetched record
\* is still usable, exactly one fetch was made and every call returned its
\* token.
C5_OneFetchFleetWide ==
    (Fleet /\ AllOK /\ FetchedStillUsable) =>
        (TotalFetches = 1 /\ SameFetchedToken)

----------------------------------------------------------------------------
(* C6: a failed Lock is surfaced *)

\* C6: a call whose Lock failed returns an empty token, CodeLock and an
\* error, ErrLockAcquire after redisLockMaxRetry attempts on a held key; a
\* call of a Manager with a locker fetches and writes the cache only after
\* Lock gave it the lock.
C6_LockFailureSurfaces ==
    \A c \in Act :
        /\ (M(c).distLocker # "none" /\ hist[c].fetches + hist[c].sets > 0)
              => hist[c].dist
        /\ (hist[c].setnx > 0 /\ ~hist[c].dist /\ pc[c] \notin {"setnx", "wait"})
              => /\ ret[c].code = CodeLock
                 /\ ret[c].token = 0
                 /\ ret[c].err # NoErr
                 /\ hist[c].fetches = 0
                 /\ hist[c].sets = 0
        /\ (hist[c].setnx = redisLockMaxRetry /\ ~hist[c].dist)
              => ret[c].err \in {ErrLockAcquire, CtxErr, BackendErr}
        /\ ret[c].err = ErrLockAcquire
              => hist[c].setnx = redisLockMaxRetry /\ ret[c].code = CodeLock

\* a call has returned after three attempts on a key another process held
C6_Witness ==
    \E c \in Act :
        /\ pc[c] = "done"
        /\ ret[c].err = ErrLockAcquire
        /\ hist[c].setnx = redisLockMaxRetry

----------------------------------------------------------------------------
(* C7: a failed cache write *)

\* C7: a call whose Cache.Set failed after its fetch returns the token it
\* fetched, CodeCacheSet and an error.
C7_SetFailureKeepsToken ==
    \A c \in Act :
        (hist[c].sets = 1 /\ ret[c].path # "fresh") =>
            /\ ret[c].token # 0
            /\ ret[c].token = newToken[c].AccessToken
            /\ ret[c].code = CodeCacheSet
            /\ ret[c].err # NoErr

\* a call has returned CodeCacheSet, and the cache does not hold its token
C7_Witness ==
    \E c \in Act :
        /\ pc[c] = "done"
        /\ ret[c].code = CodeCacheSet
        /\ cache[M(c).cache].AccessToken # ret[c].token

----------------------------------------------------------------------------
(* C8: the hot path *)

\* C8: a step that ends the first read on a valid record ends the call at
\* once with that record's token and CodeOK, and changes neither a mutex nor
\* a lock key nor the count of fetches; a call that returned from the first
\* read has taken no mutex, no lock and made no fetch.
C8_HotPathStep ==
    \A c \in Act :
        (pc[c] = "get1" /\ pc'[c] # "get1" /\ ret'[c].err = NoErr
            /\ StillValid(cache[M(c).cache]))
        => /\ pc'[c] = "done"
           /\ ret'[c].code = CodeOK
           /\ ret'[c].token = cache[M(c).cache].AccessToken
           /\ mu' = mu /\ lock' = lock /\ hist' = hist /\ fetchSeq' = fetchSeq

C8_HotPath ==
    /\ [][C8_HotPathStep]_vars
    /\ [](\A c \in Act : ret[c].path = "hit1" =>
              pc[c] = "done" /\ hist[c] = NoHist)

\* a call returned from its first read the token another goroutine of its
\* Manager fetched, while that goroutine still holds the mutex
C8_Witness ==
    \E c, a \in Act :
        /\ c # a
        /\ ret[c].path = "hit1" /\ pc[c] = "done"
        /\ mu[mgrOf[c]] = a
        /\ ret[a].path = "fresh"
        /\ ret[a].token = ret[c].token

----------------------------------------------------------------------------
(* C9: cancellation while waiting for the lock *)

\* C9: a call that is waiting between two attempts with its context
\* cancelled leaves the wait only by returning the context's error (not
\* ErrLockAcquire) with an empty token, making no further SetNX and
\* leaving the lock key as it is; its lock value is not in the key.
C9_CancelledWaitStep ==
    \A c \in Act :
        (pc[c] = "wait" /\ ctxDone[c] /\ pc'[c] # "wait")
        => /\ ret'[c].err = CtxErr
           /\ ret'[c].err # ErrLockAcquire
           /\ ret'[c].token = 0
           /\ pc'[c] = "unlockMu"
           /\ hist'[c] = hist[c]
           /\ lock' = lock

----------------------------------------------------------------------------
(* C10: locks are released on every exit path *)

\* C10: when a call has returned, it does not hold its Manager's mutex, and
\* if it acquired the lock key, its lock value is no longer in it.
C10_AllReleased ==
    \A c \in Act :
        pc[c] = "done" =>
            /\ mu[mgrOf[c]] # c
            /\ hist[c].dist => ~HoldsKey(c)

----------------------------------------------------------------------------
(* C11: the distributed lock lies inside the mutex *)

\* C11: a call is in RedisLocker.Lock, has a release handle to run, or has
\* its lock value in the lock key only while it holds its Manager's mutex:
\* the mutex is taken first, and it is not released while the call still
\* holds the distributed lock.
C11_DistLockInsideMutex ==
    \A c \in Act :
        (pc[c] \in {"setnx", "wait"} \/ unlock[c] \/ HoldsKey(c))
            => mu[mgrOf[c]] = c

----------------------------------------------------------------------------
(* C12: empty cache, strategy off, one caller *)

\* no call but c's has begun
Alone(c) == \A d \in Act \ {c} : pc[d] = "get1"

\* caller c's Manager was built with strategy off
StrategyOff(c) ==
    M(c).err = NoErr /\ cfg[mgrOf[c]].DistLockStrategy = DistLockOff

\* C12: the one caller of a Manager built with strategy off, over a cache
\* that is empty until the call's own Cache.Set, never touches a lock key;
\* when its call has returned and nothing has failed, it made one fetch and
\* one Cache.Set, with the issuer-reported lifetime as ttl, the cache holds
\* the fetched record, and the call returned its token with CodeOK.
C12_EmptyCacheOffOneCaller ==
    \A c \in Act : (StrategyOff(c) /\ Alone(c)) =>
        /\ hist[c].sets = 0 => cache[M(c).cache] = NoRecord
        /\ hist[c].setnx = 0 /\ ~hist[c].dist /\ ~unlock[c]
        /\ \A s \in LockStores : lock[s] = NoLock
        /\ (pc[c] = "done" /\ faults = 0) =>
              /\ hist[c].fetches = 1
              /\ hist[c].sets = 1
              /\ hist[c].ttl \in Lifetimes
              /\ hist[c].ttl = newToken[c].ExpiresIn
              /\ hist[c].ttl = newToken[c].ExpiresAt - now
              /\ cache[M(c).cache] = newToken[c]
              /\ ret[c].token = fetchSeq /\ fetchSeq = 1
              /\ ret[c].token = newToken[c].AccessToken
              /\ ret[c].code = CodeOK /\ ret[c].err = NoErr

\* the call has returned the fetched token with strategy off over a Redis
\* cache, whose client could have served as a lock
C12_Witness ==
    \E c \in Act :
        /\ StrategyOff(c) /\ Alone(c)
        /\ M(c).selectedKind = cacheKindRedis
        /\ pc[c] = "done" /\ faults = 0
        /\ ret[c].path = "fresh"
        /\ cache["redis"].AccessToken = ret[c].token

----------------------------------------------------------------------------
(* C13: the validity rule *)

\* caller c is at one of its three cache reads
Reading(c) == pc[c] \in {"get1", "get2", "get3"}

\* the record a read by caller c returns
ReadBy(c) == cache[M(c).cache]

\* the step is a read by c that Cache.Get answered without an error
ReadStep(c) ==
    Reading(c) /\ pc'[c] # pc[c] /\ ret'[c].code # CodeCacheGet

\* where a call goes on a miss: towards the mutex, the lock, the fetch
RefreshPath == {"lockMu", "setnx", "get3", "fetching"}

\* C13 as claimed: a read returns the record's token exactly when the record
\* is present and now + 5 minutes < its expiry; otherwise the call goes down
\* the refresh path.
C13_StrictStep ==
    \A c \in Act : ReadStep(c) =>
        LET usable == /\ ReadBy(c).AccessToken # 0
                      /\ now + 5 * 60 < ReadBy(c).ExpiresAt
        IN  /\ usable <=> (ret'[c].path \in Hits)
            /\ ~usable => pc'[c] \in RefreshPath

C13_UsableIffStrictlyBefore == [][C13_StrictStep]_vars

\* C13 amended: the same with now + 5 minutes <= expiry; a record that
\* expires in 4 minutes sends the call down the refresh path.
C13_AmendedStep ==
    \A c \in Act : ReadStep(c) =>
        LET usable == /\ ReadBy(c).AccessToken # 0
                      /\ now + 5 * 60 <= ReadBy(c).ExpiresAt
        IN  /\ usable <=> (ret'[c].path \in Hits)
            /\ usable => ret'[c].token = ReadBy(c).AccessToken
            /\ ~usable => pc'[c] \in RefreshPath
            /\ (ReadBy(c).ExpiresAt - now = 4 * 60) => pc'[c] \in RefreshPath

C13_UsableIffNotAfter == [][C13_AmendedStep]_vars

\* a call took the lock key at this instant and its third read, at this
\* instant too, returned a record that expires in exactly 5 minutes
C13_Witness ==
    \E c \in Act :
        /\ ret[c].path = "hit3" /\ pc[c] = "unlockDist"
        /\ HoldsKey(c)
        /\ lock[M(c).distLocker].exp = now + M(c).lockTTL
        /\ ReadBy(c).ExpiresAt = now + 5 * 60
        /\ ret[c].token = ReadBy(c).AccessToken

----------------------------------------------------------------------------
(* C14: the cache is chosen by priority *)

\* the process has called NewClient
Built(m) == mgr[m] # NoManager

\* NewClient gave the process a Manager
BuiltOK(m) == Built(m) /\ mgr[m].err = NoErr

HasCredentials(c) == c.AppID # "" /\ c.AppSecret # ""

----------------------------------------------------------------------------
(* C15: the README's priority *)

\* C15: a Manager built from a Config with both Redis clients and no custom
\* cache has the single-node Redis cache.
C15_ReadmePriority ==
    \A m \in Managers :
        (BuiltOK(m) /\ cfg[m].Cache = NilCache
            /\ cfg[m].RedisClient /\ cfg[m].RedisClusterClient)
        => /\ mgr[m].selectedKind = cacheKindRedis
           /\ mgr[m].cache = "redis"

----------------------------------------------------------------------------
(* C16: no locker under off, and under auto without a lock backend *)

\* the cache NewManager chooses from c can serve as a lock: it is a
\* TokenLocker itself, or it is one of the Redis caches
LockCapable(c) ==
    \/ c.Cache = CustomLockerCache
    \/ c.Cache = NilCache /\ (c.RedisClient \/ c.RedisClusterClient)

\* C16: with credentials, construction under off succeeds with no locker
\* whatever the cache; under auto or the empty strategy with a cache that is
\* neither a TokenLocker nor a Redis cache it succeeds with no locker too;
\* and a call on a Manager without a locker runs no Lock, holds no release
\* handle, leaves every lock key alone and fetches under its mutex.
C16_NoLocker ==
    \A m \in Managers :
        LET c == cfg[m] IN
        /\ (Built(m) /\ HasCredentials(c) /\ c.DistLockStrategy = DistLockOff) =>
              /\ mgr[m].err = NoErr
              /\ mgr[m].distLocker = "none"
              /\ mgr[m].lockStrategy = DistLockOff
        /\ (Built(m) /\ HasCredentials(c) /\ ~LockCapable(c)
                /\ c.DistLockStrategy \in {"", DistLockAuto}) =>
              /\ mgr[m].err = NoErr
              /\ mgr[m].distLocker = "none"
              /\ mgr[m].lockStrategy = DistLockAuto
        /\ (BuiltOK(m) /\ mgr[m].distLocker = "none") =>
              /\ \A s \in LockStores : lock[s] = NoLock
              /\ \A d \in CallersOf(m) :
                    /\ hist[d].setnx = 0 /\ ~hist[d].dist /\ ~unlock[d]
                    /\ pc[d] \notin {"setnx", "wait", "unlockDist"}
                    /\ pc[d] \in {"get2", "get3", "fetching", "set", "unlockMu"}
                          => mu[m] = d
                    /\ hist[d].fetches > 0 => hist[d].mutex

\* under off, a Manager whose cache is a TokenLocker has made a call that
\* fetched under the mutex alone
C16_Witness ==
    \E m \in Managers : \E d \in CallersOf(m) :
        /\ BuiltOK(m)
        /\ cfg[m].DistLockStrategy = DistLockOff
        /\ cfg[m].Cache = CustomLockerCache
        /\ pc[d] = "done" /\ hist[d].fetches = 1 /\ hist[d].mutex
        /\ hist[d].setnx = 0

----------------------------------------------------------------------------
(* C17: the locker under auto and on *)

\* C17: with credentials, under auto, the empty strategy or on: a cache that
\* is a TokenLocker is the locker; else a Redis cache is locked over its own
\* client, the cluster's or the single node's; else construction fails under
\* on with ErrLockBackendMissing and gives no Manager, so that no call is
\* made, and succeeds without a locker otherwise.  A Redis locker is never
\* over a client other than the chosen cache's.
C17_LockerSelection ==
    \A m \in Managers :
        LET c == cfg[m] IN
        /\ (Built(m) /\ HasCredentials(c)
                /\ c.DistLockStrategy \in {"", DistLockAuto, DistLockOn}) =>
              IF c.Cache = CustomLockerCache
                THEN /\ mgr[m].err = NoErr
                     /\ mgr[m].distLocker = "custom"
                     /\ mgr[m].cache = "custom"
              ELSE IF c.Cache = NilCache /\ c.RedisClusterClient
                THEN /\ mgr[m].err = NoErr
                     /\ mgr[m].distLocker = "cluster"
                     /\ mgr[m].cache = "cluster"
              ELSE IF c.Cache = NilCache /\ c.RedisClient
                THEN /\ mgr[m].err = NoErr
                     /\ mgr[m].distLocker = "redis"
                     /\ mgr[m].cache = "redis"
              ELSE IF c.DistLockStrategy = DistLockOn
                THEN /\ mgr[m].err = ErrLockBackendMissing
                     /\ DOMAIN mgr[m] = {"err"}
                     /\ \A d \in CallersOf(m) :
                            pc[d] = "get1" /\ ret[d] = NoRet /\ hist[d] = NoHist
              ELSE /\ mgr[m].err = NoErr
                   /\ mgr[m].distLocker = "none"
        /\ (BuiltOK(m) /\ mgr[m].distLocker \in {"redis", "cluster"}) =>
              /\ mgr[m].distLocker = mgr[m].cache
              /\ mgr[m].selectedKind \in {cacheKindRedis, cacheKindRC}

\* under on, construction has failed for a custom cache that is no
\* TokenLocker, with a Redis client in the Config
C17_Witness ==
    \E m \in Managers :
        /\ Built(m)
        /\ HasCredentials(cfg[m])
        /\ cfg[m].DistLockStrategy = DistLockOn
        /\ cfg[m].Cache = CustomCache
        /\ cfg[m].RedisClient
        /\ mgr[m].err = ErrLockBackendMissing

----------------------------------------------------------------------------
(* C18: construction fails without credentials; the selection is fixed *)

\* the strategy of c can be met: it is not on, or the chosen cache can lock
Satisfiable(c) == c.DistLockStrategy # DistLockOn \/ LockCapable(c)

\* C18, in every state: construction from a Config with an empty AppID has
\* failed with ErrMissingAppID, whatever the secret; with an AppID and an
\* empty AppSecret, with ErrMissingAppSecret; a failed construction gives no
\* Manager and no call is made; with both and a strategy that can be met it
\* has succeeded.
C18_ConstructionState ==
    \A m \in Managers :
        LET c == cfg[m] IN
        Built(m) =>
            /\ c.AppID = "" => mgr[m].err = ErrMissingAppID
            /\ (c.AppID # "" /\ c.AppSecret = "") =>
                  mgr[m].err = ErrMissingAppSecret
            /\ mgr[m].err # NoErr =>
                  /\ DOMAIN mgr[m] = {"err"}
                  /\ \A d \in CallersOf(m) :
                        pc[d] = "get1" /\ ret[d] = NoRet /\ hist[d] = NoHist
            /\ (HasCredentials(c) /\ Satisfiable(c)) =>
                  /\ mgr[m].err = NoErr
                  /\ mgr[m].cache \in Stores
                  /\ mgr[m].distLocker \in LockStores \cup {"none"}
                  /\ mgr[m].lockStrategy \in Strategies \ {""}

\* C18, in every step: once a process has called NewClient, no step changes
\* what it got (the cache, the locker, the strategy), a step of a call least
\* of all.
C18_SelectionFixedStep ==
    \A m \in Managers : Built(m) => mgr'[m] = mgr[m] /\ cfg'[m] = cfg[m]

C18_Construction ==
    /\ []C18_ConstructionState
    /\ [][C18_SelectionFixedStep]_vars

\* one process failed to start for want of both credentials, with
\* ErrMissingAppID; the other has a Manager with a Redis locker and its call
\* has returned a fetched token
C18_Witness ==
    /\ Built("m2")
    /\ cfg["m2"].AppID = "" /\ cfg["m2"].AppSecret = ""
    /\ mgr["m2"].err = ErrMissingAppID
    /\ BuiltOK("m1")
    /\ mgr["m1"].distLocker = "redis"
    /\ \E d \in CallersOf("m1") :
        pc[d] = "done" /\ ret[d].path = "fresh" /\ hist[d].dist

----------------------------------------------------------------------------
(* C19: one fetch attempt per call *)

FetchCodes == {CodeHTTP, CodeAPIError, CodeInvalidResponse}

\* C19: a call sends at most one request to the issuer; a call whose request
\* failed has returned an empty token with the fetch's code and error, holds
\* no record and has called Cache.Set not once; and while no call has called
\* Cache.Set every cache is as it was at the start.
C19_OneFetchAttempt ==
    /\ \A c \in Act :
        /\ hist[c].fetches <= 1
        /\ (hist[c].fetches = 1 /\ pc[c] # "fetching" /\ newToken[c] = NoRecord)
              => ret[c].path = "fetch"
        /\ ret[c].path = "fetch" =>
              /\ ret[c].token = 0
              /\ ret[c].code \in FetchCodes
              /\ ret[c].code = CodeHTTP <=> ret[c].err = TransportErr
              /\ ret[c].code = CodeAPIError <=> ret[c].err = ErrAPIError
              /\ ret[c].code = CodeInvalidResponse
                    <=> ret[c].err = ErrInvalidResponse
              /\ hist[c].fetches = 1
              /\ hist[c].sets = 0
              /\ newToken[c] = NoRecord
              /\ pc[c] \in {"unlockDist", "unlockMu", "done"}
    /\ (\A c \in Act : hist[c].sets = 0) =>
          /\ cache["redis"] \in {NoRecord, StaleRecord}
          /\ \A s \in Stores \ {"redis"} : cache[s] = NoRecord

\* a call that held the lock key has returned the issuer's errcode after
\* one request, the key is released and the Redis cache is empty
C19_Witness ==
    \E c \in Act :
        /\ pc[c] = "done"
        /\ ret[c].path = "fetch" /\ ret[c].code = CodeAPIError
        /\ hist[c].dist /\ hist[c].fetches = 1
        /\ ~ctxDone[c]
        /\ lock[M(c).distLocker] = NoLock
        /\ cache[M(c).cache] = NoRecord

----------------------------------------------------------------------------
(* C20: a release deletes only its own lock *)

\* the lock key of caller c's locker
KeyOf(c) == lock[M(c).distLocker]

\* C20: the step in which a call runs its release handle leaves every lock
\* key as it is when the call's key does not hold the call's own lock value,
\* another holder's lock in particular; when it does hold it, and the
\* call's context is not cancelled, the key is deleted.
C20_ReleaseStep ==
    \A c \in Act :
        (pc[c] = "unlockDist" /\ pc'[c] # "unlockDist") =>
            /\ KeyOf(c).val # c => lock' = lock
            /\ (KeyOf(c).val = c /\ now < KeyOf(c).exp /\ ~ctxDone[c]) =>
                  lock' = [lock EXCEPT ![M(c).distLocker] = NoLock]
            /\ \A d \in Act \ {c} : HoldsKey(d) => HoldsKey(d)'

C20_ReleaseOnlyOwnLock == [][C20_ReleaseStep]_vars

\* caller a took the key first; its lease ran out during its fetch; b then
\* took the key and its third read found nothing; a then wrote the cache
\* and ran its release, its context not cancelled; b's lock is in place
C20_Witness ==
    \E a, b \in Act :
        /\ a # b
        /\ hist[a].dist /\ hist[b].dist
        /\ ret[a].path = "fresh" /\ StillValid(newToken[a])
        /\ pc[a] \in {"unlockMu", "done"}
        /\ ~ctxDone[a]
        /\ hist[b].fetches = 1
        /\ HoldsKey(b)

----------------------------------------------------------------------------
(* C21: the attempts and waits of RedisLocker.Lock *)

\* min(250ms * 2^k, 900ms), milliseconds
NominalWait(k) ==
    LET d == 250 * Shl1(k) IN IF d < 900 THEN d ELSE 900

\* w is within 20% of b, either way
WithinJitter(w, b) == 10 * w >= 8 * b /\ 10 * w <= 12 * b

\* C21: a Lock call makes at most 3 SetNX attempts, one per value of its
\* loop variable; while it sleeps before retry k+1 its timer is within 20%
\* of min(250ms * 2^k, 900ms); it has the release handle after the first
\* attempt that found no key, and an attempt that errored was its last: in
\* both cases every attempt before found the key held; and it returned
\* ErrLockAcquire exactly when 3 attempts found the key held.  The bound on
\* the timer holds for the attempts past the last one as well.
C21_LockRetries ==
    /\ \A c \in Act :
        /\ hist[c].setnx <= 3
        /\ hist[c].held <= hist[c].setnx
        /\ pc[c] = "setnx" => hist[c].setnx = attempt[c]
        /\ (hist[c].setnx > 0 /\ pc[c] # "setnx") =>
              hist[c].setnx = attempt[c] + 1
        /\ pc[c] = "wait" =>
              /\ attempt[c] < 2
              /\ hist[c].held = attempt[c] + 1
              /\ WithinJitter(wait[c], NominalWait(attempt[c]))
        /\ pc[c] # "wait" => wait[c] = 0
        /\ hist[c].dist => hist[c].held = hist[c].setnx - 1
        /\ (hist[c].dist /\ pc[c] \in {"get3", "fetching", "set", "unlockDist"})
              => unlock[c]
        /\ (ret[c].path = "lock" /\ ret[c].err \in {BackendErr, CtxErr}) =>
              /\ hist[c].held = hist[c].setnx - 1
              /\ ~hist[c].dist /\ ~unlock[c]
        /\ ret[c].err = ErrLockAcquire <=> hist[c].held = 3
    /\ \A k \in 0..4 : \A w \in backoffInterval(k) :
          WithinJitter(w, NominalWait(k))

\* a Lock call sleeps before its third attempt, on a timer above 500 ms
C21_Witness ==
    \E c \in Act :
        /\ pc[c] = "wait"
        /\ attempt[c] = 1
        /\ hist[c].held = 2
        /\ wait[c] > 500

----------------------------------------------------------------------------
(* C22: the double-check *)

\* the call returned from the re-read under the mutex (code.go:377-379) or
\* from the read under the distributed lock (code.go:395-397)
Reread == {"hit2", "hit3"}

\* what a call that returned from a re-read did on its way there
RereadHit(c) ==
    /\ ret[c].path \in Reread =>
        /\ ret[c].code = CodeOK /\ ret[c].err = NoErr
        /\ ret[c].token # 0 /\ ret[c].fresh
        /\ hist[c].mutex
        /\ hist[c].fetches = 0 /\ hist[c].sets = 0
    /\ ret[c].path = "hit2" => hist[c].setnx = 0 /\ ~hist[c].dist
    /\ ret[c].path = "hit3" =>
        (M(c).distLocker # "none" => hist[c].dist /\ hist[c].setnx > 0)

\* a returned call holds neither its Manager's mutex nor the lock key
Released(c) ==
    /\ mu[mgrOf[c]] # c
    /\ ~unlock[c]
    /\ ~HoldsKey(c)

\* C22: a call that finds a usable record on the re-read under the mutex
\* returns it with CodeOK, having sent no SetNX and no fetch; a call that
\* finds one on the read after the distributed lock was granted returns it
\* with CodeOK, having fetched nothing and written nothing; and once either
\* has returned it holds no lock.
C22_DoubleCheck ==
    \A c \in Act :
        /\ RereadHit(c)
        /\ (pc[c] = "done" /\ ret[c].path \in Reread) => Released(c)

----------------------------------------------------------------------------
(* C23: a failed cache read ends the call *)

\* the branches that return a cache read's error (code.go:359-361, 374-376,
\* 392-394)
ReadErrs == {"get1", "get2", "get3"}

\* positions of a call that has executed its return statement
Returning == {"unlockDist", "unlockMu", "done"}

\* C23, in every state: CodeCacheGet is returned from the three reads and
\* from nowhere else, with an empty token and the read's error; such a call
\* has fetched nothing and written nothing, is on its way out (it reads no
\* more), and has not gone past the read that failed.
C23_ReadErrorState ==
    \A c \in Act :
        /\ ret[c].code = CodeCacheGet <=> ret[c].path \in ReadErrs
        /\ ret[c].path \in ReadErrs =>
            /\ ret[c].token = 0
            /\ ret[c].err \in {CtxErr, BackendErr}
            /\ hist[c].fetches = 0 /\ hist[c].sets = 0
            /\ newToken[c] = NoRecord
            /\ pc[c] \in Returning
        /\ ret[c].path = "get1" => ~hist[c].mutex /\ hist[c].setnx = 0
        /\ ret[c].path = "get2" => hist[c].mutex /\ hist[c].setnx = 0
        /\ ret[c].path = "get3" =>
            hist[c].mutex /\ (M(c).distLocker # "none" => hist[c].dist)

\* C23, in every step: a read of a Redis cache under a cancelled context
\* fails, and the step that takes it is the return with CodeCacheGet and the
\* context's error from that very read; it changes no cache entry and sends
\* no request.
C23_ReadErrorStep ==
    \A c \in Act :
        (Reading(c) /\ pc'[c] # pc[c] /\ Remote(M(c).cache) /\ ctxDone[c]) =>
            /\ ret'[c].code = CodeCacheGet
            /\ ret'[c].err = CtxErr
            /\ ret'[c].token = 0
            /\ ret'[c].path = pc[c]
            /\ pc'[c] \in Returning
            /\ cache' = cache /\ hist' = hist

C23_ReadErrorSurfaces ==
    /\ []C23_ReadErrorState
    /\ [][C23_ReadErrorStep]_vars

\* a call took the lock key, its third read failed in the backend, and it
\* has returned CodeCacheGet with the cache still empty
C23_Witness ==
    \E c \in Act :
        /\ pc[c] = "done"
        /\ ret[c].path = "get3" /\ ret[c].code = CodeCacheGet
        /\ ret[c].err = BackendErr
        /\ hist[c].dist
        /\ cache[M(c).cache] = NoRecord

----------------------------------------------------------------------------
(* C24: the cache is written only inside the protocol *)

\* the step is caller c's m.cache.Set(ctx, cacheKey, newToken, ttl)
\* (code.go:407)
SetCall(c) == hist'[c].sets = hist[c].sets + 1

\* the branches that return after Cache.Set (code.go:409, 412)
AfterSet == {"fresh", "set"}

\* what a Cache.Set by c does to the cache, and what came before it in the
\* call
SetInCall(c) ==
    /\ pc[c] = "set"
    /\ hist[c].fetches = 1 /\ hist[c].sets = 0
    /\ newToken[c] # NoRecord
    /\ ret[c] = NoRet
    /\ cache' \in {cache, [cache EXCEPT ![M(c).cache] = newToken[c]]}
    /\ ret'[c].path = "fresh" <=> cache'[M(c).cache] = newToken[c]
    /\ mu[mgrOf[c]] = c

\* C24: a step that changes a cache entry is a Cache.Set of some call; every
\* Cache.Set comes after that call's one successful fetch and before its
\* return, writes the fetched record under the tenant's key or nothing, and
\* is made while the call holds its Manager's mutex and, when a locker is
\* configured, while its lock value is in the lock key; a call that returned
\* from a hit or a failure made no Cache.Set.
C24_WriteStep ==
    /\ cache' # cache => \E c \in Act : SetCall(c)
    /\ \A c \in Act :
        /\ SetCall(c) =>
            /\ SetInCall(c)
            /\ M(c).distLocker # "none" => HoldsKey(c)
        /\ (ret'[c].path \notin AfterSet) => hist'[c].sets = 0

C24_WritesInsideProtocol == [][C24_WriteStep]_vars

----------------------------------------------------------------------------
(* C25: how the fetch classifies what the issuer sends *)

\* the response under study arrived with a 2xx status and its body was read
Received(r) == r.transport /\ r.status >= 200 /\ r.status <= 299

\* C25: for every response, fetchTokenFromWeChat returns CodeHTTP when the
\* request or the reading failed or the status is outside 2xx;
\* CodeInvalidResponse when the body is not JSON; CodeAPIError when the
\* errcode is not 0, with or without a token; CodeInvalidResponse when the
\* errcode is 0 and the token is empty; and a record only for a token with
\* errcode 0, which expires the reported lifetime after the function's
\* time.Now().  A failure carries no record and an error.
C25_FetchClassification ==
    LET r == apiResp.r
        o == apiResp.out
    IN  o.code # "none" =>
        /\ ~Received(r) => o.code = CodeHTTP
        /\ (Received(r) /\ ~r.parse) => o.code = CodeInvalidResponse
        /\ (Received(r) /\ r.parse /\ r.errcode # 0) => o.code = CodeAPIError
        /\ (Received(r) /\ r.parse /\ r.errcode = 0 /\ r.access_token = 0) =>
              o.code = CodeInvalidResponse
        /\ (Received(r) /\ r.parse /\ r.errcode = 0 /\ r.access_token # 0) =>
              /\ o.code = CodeOK
              /\ o.rec.AccessToken = r.access_token
              /\ o.rec.ExpiresIn = r.expires_in
              /\ o.rec.ExpiresAt = now + r.expires_in
        /\ o.code = CodeOK <=> o.err = NoErr
        /\ o.code = CodeOK <=> o.rec # NoRecord
        /\ o.code = CodeHTTP => o.err = TransportErr
        /\ o.code = CodeAPIError => o.err = ErrAPIError
        /\ o.code = CodeInvalidResponse => o.err = ErrInvalidResponse

\* a 200 whose body has an errcode and no token was classified CodeAPIError
C25_Witness ==
    /\ apiResp.out.code = CodeAPIError
    /\ apiResp.r.status = 200
    /\ apiResp.r.errcode # 0
    /\ apiResp.r.access_token = 0

----------------------------------------------------------------------------
(* C26: token, code and error agree *)

\* the call has executed a return statement
Returned(c) == ret[c].code # "none"

\* the codes GetAccessToken returns
ReturnCodes == {CodeOK, CodeCacheGet, CodeLock, CodeCacheSet} \cup FetchCodes

\* C26: whatever a call returns, the error is nil exactly when the code is
\* CodeOK; the token is empty under every code other than CodeOK and
\* CodeCacheSet; and a token comes together with an error under CodeCacheSet
\* and under no other code.
C26_TripleConsistent ==
    \A c \in Act : Returned(c) =>
        /\ ret[c].code \in ReturnCodes
        /\ ret[c].err = NoErr <=> ret[c].code = CodeOK
        /\ ret[c].code \notin {CodeOK, CodeCacheSet} => ret[c].token = 0
        /\ (ret[c].token # 0 /\ ret[c].err # NoErr) <=> ret[c].code = CodeCacheSet

\* one call has returned its fetched token with CodeCacheSet and an error;
\* the other then fetched in its turn and has returned its token with CodeOK
C26_Witness ==
    \E c, d \in Act :
        /\ pc[c] = "done" /\ ret[c].code = CodeCacheSet
        /\ ret[c].token # 0 /\ ret[c].err # NoErr
        /\ pc[d] = "done" /\ ret[d].code = CodeOK /\ ret[d].token # 0
        /\ ret[d].path = "fresh"

----------------------------------------------------------------------------
(* C27: every call returns *)

\* caller c waits in m.mu.Lock() for a mutex another call holds
Blocked(c) == pc[c] = "lockMu" /\ mu[mgrOf[c]] # Free

\* C27, in every state: while a call is unfinished some call can take a
\* step, and the holder of a mutex others wait for is never itself waiting
\* for the mutex.
C27_NoDeadlock ==
    /\ (\E c \in Act : pc[c] # "done") =>
          \E c \in Act : ENABLED (CallStep(c) \/ MuLock(c))
    /\ \A c \in Act : Blocked(c) =>
          /\ mu[mgrOf[c]] \in Act \ {c}
          /\ ENABLED CallStep(mu[mgrOf[c]])

\* C27, in every step: a call that waits for the mutex stays where it is,
\* with nothing returned, cancelled or not, until the step in which it takes
\* the free mutex.
C27_MutexWaitStep ==
    \A c \in Act : pc[c] = "lockMu" =>
        \/ pc'[c] = "lockMu" /\ ret'[c] = ret[c]
        \/ /\ mu[mgrOf[c]] = Free
           /\ mu'[mgrOf[c]] = c
           /\ pc'[c] = "get2"
           /\ ret'[c] = ret[c]

\* C27: when every operation returns and the mutex is fair, every call
\* returns; no state is a deadlock; a wait for the mutex ends by getting it
\* and in no other way, whatever happens to the caller's context.
C27_EveryCallReturns ==
    /\ <>(\A c \in Act : pc[c] = "done")
    /\ []C27_NoDeadlock
    /\ [][C27_MutexWaitStep]_vars

\* a caller whose context is cancelled waits for the mutex while its holder
\* is at the issuer, and a third caller waits behind it
C27_Witness ==
    \E c, d, e \in Act :
        /\ c # e
        /\ Blocked(c) /\ ctxDone[c]
        /\ Blocked(e)
        /\ mu[mgrOf[c]] = d /\ pc[d] = "fetching"

============================================================================
